---- MODULE Spec2Model ----
(***************************************************************************)
(* Model of src/screens/LocationScreen.tsx: the LocationScreen component,  *)
(* its React state, the locationSubscription ref, and the asynchronous     *)
(* expo-location calls it awaits.                                          *)
(*                                                                         *)
(* Conventions                                                             *)
(*  - One action per event-loop task: a button handler, or the code that   *)
(*    runs after an await resolves/rejects.  React re-renders between      *)
(*    tasks, so a handler reads the state of the latest render.            *)
(*  - A function created during a render closes over that render's state.  *)
(*    The callback handed to watchPositionAsync therefore keeps the        *)
(*    isInGroup / groupCode / userName of the render in which              *)
(*    startLocationTracking was called; those are stored with the watch.   *)
(*  - Coordinates are integers in units of 0.001 degree.                   *)
(*  - Strings are sequences of one-character strings.                      *)
(*  - alerts and console hold what the LAST task showed / logged.          *)
(*  - Date.now() timestamps and coords.accuracy are not modelled.          *)
(***************************************************************************)
EXTENDS Integers, Sequences, FiniteSets, TLC

VARIABLES
    mounted,               \* the component instance is mounted
    initPc,                \* position of initializeLocation: "permission" | "position" | "done"
    permissionStatus,      \* "undetermined" | "granted" | "denied"
    location,              \* useState<LocationObject | null>
    mapRegion,             \* useState<MapRegion | null>
    mapType,               \* useState<'standard' | 'satellite' | 'hybrid'>
    groupCode,             \* useState<string>
    userName,              \* useState<string>
    isInGroup,             \* useState<boolean>
    groupMembers,          \* useState<UserLocation[]>
    showJoinModal,         \* useState<boolean>
    isTracking,            \* useState<boolean>
    locationSubscription,  \* useRef: NoSub (null) or the id of a watch
    watches,               \* the platform's view of every watchPositionAsync call
    alerts,                \* Alert.alert calls of the last task
    console                \* console.log / console.error calls of the last task

vars == <<mounted, initPc, permissionStatus, location, mapRegion, mapType,
          groupCode, userName, isInGroup, groupMembers, showJoinModal,
          isTracking, locationSubscription, watches, alerts, console>>

(* ------------------------------ bounds --------------------------------- *)
MaxLen == 1        \* longest string typed into a TextInput
MaxFix == 1        \* GPS fixes are numbered 0..MaxFix
MaxWatch == 2      \* watchPositionAsync calls that can be outstanding at once

(* ----------------------------- constants ------------------------------- *)
NULL == [null |-> TRUE]                  \* JavaScript null for location and mapRegion
NoSub == 0
ZoomDelta == 10                         \* latitudeDelta / longitudeDelta 0.01
NorthOffset == 1                        \* + 0.001
SouthOffset == 1                        \* - 0.001
EastOffset == 1                         \* + 0.001
FarEastOffset == 2                      \* + 0.002

userColors == <<"#FF6B6B", "#4ECDC4", "#45B7D1", "#96CEB4", "#FFEAA7", "#DDA0DD", "#98D8C8">>

types == <<"standard", "satellite", "hybrid">>

(* ------------------------------ strings -------------------------------- *)
Chars == {" ", "A"}

RECURSIVE SeqsUpTo(_)
SeqsUpTo(n) ==
    IF n = 0 THEN {<<>>}
    ELSE LET shorter == SeqsUpTo(n - 1)
         IN  shorter \cup {Append(s, c) : s \in {t \in shorter : Len(t) = n - 1}, c \in Chars}

Strings == SeqsUpTo(MaxLen)

IsSpace(c) == c = " "

RECURSIVE trimStart(_)
trimStart(s) ==
    IF s = <<>> THEN s
    ELSE IF IsSpace(Head(s)) THEN trimStart(Tail(s)) ELSE s

RECURSIVE trimEnd(_)
trimEnd(s) ==
    IF s = <<>> THEN s
    ELSE IF IsSpace(s[Len(s)]) THEN trimEnd(SubSeq(s, 1, Len(s) - 1)) ELSE s

\* String.prototype.trim
trim(s) == trimEnd(trimStart(s))

\* JavaScript truthiness of a string
Truthy(s) == s # <<>>

(* --------------------------- platform values --------------------------- *)
Fixes == {[latitude |-> 100 * k, longitude |-> 100 * k] : k \in 0..MaxFix}

RegionAt(loc, delta) ==
    [latitude |-> loc.latitude, longitude |-> loc.longitude,
     latitudeDelta |-> delta, longitudeDelta |-> delta]

\* a region the map reports after a manual drag / pinch (nothing reads its fields)
DraggedRegions == {[latitude |-> 50, longitude |-> 50, latitudeDelta |-> 2 * ZoomDelta,
                    longitudeDelta |-> 2 * ZoomDelta]}

WatchIds == 1..MaxWatch

NoClosure == [isInGroup |-> FALSE, groupCode |-> FALSE, userName |-> FALSE]

FreeWatch == [status |-> "free", closure |-> NoClosure]

Live == {w \in WatchIds : watches[w].status = "live"}
Pending == {w \in WatchIds : watches[w].status = "pending"}
Free == {w \in WatchIds : watches[w].status = "free"}

(* ------------------------------ render --------------------------------- *)
\* if (!location || !mapRegion) return <loading view>
Loading == location = NULL \/ mapRegion = NULL

\* the main view is on screen and not covered by the join modal
MainViewActive == mounted /\ ~Loading /\ ~showJoinModal

\* {isInGroup ? <group status panel> : <join button>}
GroupPanelShown == mounted /\ ~Loading /\ isInGroup

JoinButtonShown == mounted /\ ~Loading /\ ~isInGroup

ModalActive == mounted /\ ~Loading /\ showJoinModal

\* {groupMembers.map(member => <Marker .../>)}
MemberMarkers == IF mounted /\ ~Loading THEN groupMembers ELSE <<>>

(* ------------------------------- Init ---------------------------------- *)
Init ==
    /\ mounted = TRUE
    /\ initPc = "permission"
    /\ permissionStatus = "undetermined"
    /\ location = NULL
    /\ mapRegion = NULL
    /\ mapType = "standard"
    /\ groupCode = <<>>
    /\ userName = <<>>
    /\ isInGroup = FALSE
    /\ groupMembers = <<>>
    /\ showJoinModal = FALSE
    /\ isTracking = FALSE
    /\ locationSubscription = NoSub
    /\ watches = [w \in WatchIds |-> FreeWatch]
    /\ alerts = <<>>
    /\ console = <<>>

(* ------------------------- helpers of the handlers --------------------- *)
Quiet == alerts' = <<>> /\ console' = <<>>

\* LocationSubscription.remove(): the platform stops delivering to the watch
Remove(ws, w) ==
    IF w # NoSub /\ ws[w].status = "live" THEN [ws EXCEPT ![w] = FreeWatch] ELSE ws

\* What the callback handed to watchPositionAsync closes over: the isInGroup,
\* groupCode and userName of the render that made the call.  The callback only
\* tests them (`isInGroup && groupCode && userName`), so a closure is kept as
\* the truthiness of each; the test short-circuits, so with isInGroup false
\* the two strings are never read and are kept as FALSE.
Closure ==
    IF isInGroup
    THEN [isInGroup |-> TRUE, groupCode |-> Truthy(groupCode), userName |-> Truthy(userName)]
    ELSE [isInGroup |-> FALSE, groupCode |-> FALSE, userName |-> FALSE]

\* the call Location.watchPositionAsync(options, callback) up to its await
BeginWatch(ws) ==
    LET w == CHOOSE x \in Free : \A y \in Free : x <= y
    IN  [ws EXCEPT ![w] = [status |-> "pending", closure |-> Closure]]

\* the two demo members built by simulateGroupMembers
demoMembers(loc) ==
    << [id |-> "demo1", name |-> "Alice",
        latitude |-> loc.latitude + NorthOffset,
        longitude |-> loc.longitude + EastOffset,
        color |-> userColors[2]],
       [id |-> "demo2", name |-> "Bob",
        latitude |-> loc.latitude - SouthOffset,
        longitude |-> loc.longitude + FarEastOffset,
        color |-> userColors[3]] >>

simulateGroupMembers == IF location = NULL THEN groupMembers ELSE demoMembers(location)

\* Array.prototype.indexOf on types, 0-based
indexOf(t) == (CHOOSE i \in 1..Len(types) : types[i] = t) - 1

\* variant of nextMapType: the index steps by two, so the cycle runs backwards
nextMapType_Backwards(t) == types[((indexOf(t) + 2) % Len(types)) + 1]

nextMapType(t) == types[((indexOf(t) + 1) % Len(types)) + 1]

\* console.log of updateLocationInGroup (the name interpolated into the
\* message is left out)
updateLocationInGroup(currentLocation) ==
    [msg |-> "Updating location", latitude |-> currentLocation.latitude,
     longitude |-> currentLocation.longitude]

(* -------------------------- initializeLocation ------------------------- *)
\* variant of requestPermissionsResolved: the `return` after the alert is missing
requestPermissionsResolved_NoReturn(status) ==
    /\ initPc = "permission"
    /\ permissionStatus' = status
    /\ alerts' = IF status # "granted" THEN <<"Permission Denied">> ELSE <<>>
    /\ initPc' = "position"
    /\ console' = <<>>
    /\ UNCHANGED <<mounted, location, mapRegion, mapType, groupCode, userName,
                   isInGroup, groupMembers, showJoinModal, isTracking,
                   locationSubscription, watches>>

\* await Location.requestForegroundPermissionsAsync() resolves with status
requestPermissionsResolved(status) ==
    /\ initPc = "permission"
    /\ permissionStatus' = status
    /\ IF status # "granted"
       THEN /\ alerts' = <<"Permission Denied">>
            /\ initPc' = "done"
       ELSE /\ alerts' = <<>>
            /\ initPc' = "position"
    /\ console' = <<>>
    /\ UNCHANGED <<mounted, location, mapRegion, mapType, groupCode, userName,
                   isInGroup, groupMembers, showJoinModal, isTracking,
                   locationSubscription, watches>>

\* the permission request throws: catch block
requestPermissionsRejected ==
    /\ initPc = "permission"
    /\ initPc' = "done"
    /\ console' = <<"Error getting location">>
    /\ alerts' = <<"Error">>
    /\ UNCHANGED <<mounted, permissionStatus, location, mapRegion, mapType,
                   groupCode, userName, isInGroup, groupMembers, showJoinModal,
                   isTracking, locationSubscription, watches>>

\* await Location.getCurrentPositionAsync() resolves
getCurrentPositionResolved(fix) ==
    /\ initPc = "position"
    /\ initPc' = "done"
    /\ IF mounted
       THEN /\ location' = fix
            /\ mapRegion' = RegionAt(fix, ZoomDelta)
       ELSE UNCHANGED <<location, mapRegion>>
    /\ Quiet
    /\ UNCHANGED <<mounted, permissionStatus, mapType, groupCode, userName,
                   isInGroup, groupMembers, showJoinModal, isTracking,
                   locationSubscription, watches>>

\* getCurrentPositionAsync throws: catch block
getCurrentPositionRejected ==
    /\ initPc = "position"
    /\ initPc' = "done"
    /\ console' = <<"Error getting location">>
    /\ alerts' = <<"Error">>
    /\ UNCHANGED <<mounted, permissionStatus, location, mapRegion, mapType,
                   groupCode, userName, isInGroup, groupMembers, showJoinModal,
                   isTracking, locationSubscription, watches>>

(* ------------------------ startLocationTracking ------------------------ *)
\* tracking button while isTracking is false: runs up to the await
startLocationTracking ==
    /\ MainViewActive
    /\ ~isTracking
    /\ Free # {}
    /\ watches' = BeginWatch(watches)
    /\ Quiet
    /\ UNCHANGED <<mounted, initPc, permissionStatus, location, mapRegion,
                   mapType, groupCode, userName, isInGroup, groupMembers,
                   showJoinModal, isTracking, locationSubscription>>

\* variant of watchPositionResolved: setIsTracking(true) is missing
watchPositionResolved_NoFlag(w) ==
    /\ watches[w].status = "pending"
    /\ watches' = [watches EXCEPT ![w].status = "live"]
    /\ locationSubscription' = w
    /\ Quiet
    /\ UNCHANGED <<mounted, initPc, permissionStatus, location, mapRegion,
                   mapType, groupCode, userName, isInGroup, groupMembers,
                   showJoinModal, isTracking>>

\* the awaited watchPositionAsync of watch w resolves:
\* locationSubscription.current = <subscription>; setIsTracking(true)
watchPositionResolved(w) ==
    /\ watches[w].status = "pending"
    /\ watches' = [watches EXCEPT ![w].status = "live"]
    /\ locationSubscription' = w
    /\ isTracking' = IF mounted THEN TRUE ELSE isTracking
    /\ Quiet
    /\ UNCHANGED <<mounted, initPc, permissionStatus, location, mapRegion,
                   mapType, groupCode, userName, isInGroup, groupMembers,
                   showJoinModal>>

\* the awaited watchPositionAsync of watch w throws: catch block
watchPositionRejected(w) ==
    /\ watches[w].status = "pending"
    /\ watches' = [watches EXCEPT ![w] = FreeWatch]
    /\ console' = <<"Error starting location tracking">>
    /\ alerts' = <<>>
    /\ UNCHANGED <<mounted, initPc, permissionStatus, location, mapRegion,
                   mapType, groupCode, userName, isInGroup, groupMembers,
                   showJoinModal, isTracking, locationSubscription>>

\* the platform delivers a new position to the callback of live watch w
locationCallback(w, newLocation) ==
    /\ watches[w].status = "live"
    /\ IF mounted
       THEN /\ location' = newLocation
            /\ mapRegion' = RegionAt(newLocation, ZoomDelta)
       ELSE UNCHANGED <<location, mapRegion>>
    /\ console' = IF /\ watches[w].closure.isInGroup
                     /\ watches[w].closure.groupCode
                     /\ watches[w].closure.userName
                  THEN <<updateLocationInGroup(newLocation)>>
                  ELSE <<>>
    /\ alerts' = <<>>
    /\ UNCHANGED <<mounted, initPc, permissionStatus, mapType, groupCode,
                   userName, isInGroup, groupMembers, showJoinModal, isTracking,
                   locationSubscription, watches>>

(* ------------------------- stopLocationTracking ------------------------ *)
\* body of stopLocationTracking, shared by the button and leaveGroup
stopLocationTrackingBody ==
    /\ watches' = Remove(watches, locationSubscription)
    /\ locationSubscription' = NoSub
    /\ isTracking' = FALSE

\* tracking button while isTracking is true
stopLocationTracking ==
    /\ MainViewActive
    /\ isTracking
    /\ stopLocationTrackingBody
    /\ Quiet
    /\ UNCHANGED <<mounted, initPc, permissionStatus, location, mapRegion,
                   mapType, groupCode, userName, isInGroup, groupMembers,
                   showJoinModal>>

(* ------------------------------ the group ------------------------------ *)
\* variant of joinGroupInvalid: the `return` after the alert is missing
joinGroupInvalid_NoReturn ==
    /\ ModalActive
    /\ (trim(groupCode) = <<>> \/ trim(userName) = <<>>)
    /\ isInGroup' = TRUE
    /\ showJoinModal' = FALSE
    /\ IF ~isTracking
       THEN /\ Free # {}
            /\ watches' = BeginWatch(watches)
       ELSE UNCHANGED watches
    /\ groupMembers' = simulateGroupMembers
    /\ alerts' = <<"Error: Please enter both group code and your name.", "Success">>
    /\ console' = <<>>
    /\ UNCHANGED <<mounted, initPc, permissionStatus, location, mapRegion,
                   mapType, groupCode, userName, isTracking,
                   locationSubscription>>

\* "Join Group" in the modal, validation fails
joinGroupInvalid ==
    /\ ModalActive
    /\ (trim(groupCode) = <<>> \/ trim(userName) = <<>>)
    /\ alerts' = <<"Error: Please enter both group code and your name.">>
    /\ console' = <<>>
    /\ UNCHANGED <<mounted, initPc, permissionStatus, location, mapRegion,
                   mapType, groupCode, userName, isInGroup, groupMembers,
                   showJoinModal, isTracking, locationSubscription, watches>>

\* variant of joinGroupValid: the call of startLocationTracking is missing
joinGroupValid_NoStart ==
    /\ ModalActive
    /\ ~(trim(groupCode) = <<>> \/ trim(userName) = <<>>)
    /\ isInGroup' = TRUE
    /\ showJoinModal' = FALSE
    /\ groupMembers' = simulateGroupMembers
    /\ alerts' = <<"Success">>
    /\ console' = <<>>
    /\ UNCHANGED <<mounted, initPc, permissionStatus, location, mapRegion,
                   mapType, groupCode, userName, isTracking,
                   locationSubscription, watches>>

\* "Join Group" in the modal, validation passes
joinGroupValid ==
    /\ ModalActive
    /\ ~(trim(groupCode) = <<>> \/ trim(userName) = <<>>)
    /\ isInGroup' = TRUE
    /\ showJoinModal' = FALSE
    /\ IF ~isTracking
       THEN /\ Free # {}
            /\ watches' = BeginWatch(watches)
       ELSE UNCHANGED watches
    /\ groupMembers' = simulateGroupMembers
    /\ alerts' = <<"Success">>
    /\ console' = <<>>
    /\ UNCHANGED <<mounted, initPc, permissionStatus, location, mapRegion,
                   mapType, groupCode, userName, isTracking,
                   locationSubscription>>

joinGroup == joinGroupInvalid \/ joinGroupValid

\* variant of leaveGroup: setGroupMembers([]) is missing
leaveGroup_KeepsMembers ==
    /\ GroupPanelShown
    /\ ~showJoinModal
    /\ isInGroup' = FALSE
    /\ groupCode' = <<>>
    /\ userName' = <<>>
    /\ stopLocationTrackingBody
    /\ alerts' = <<"Left Group">>
    /\ console' = <<>>
    /\ UNCHANGED <<mounted, initPc, permissionStatus, location, mapRegion,
                   mapType, showJoinModal, groupMembers>>

\* "Leave Group" in the group status panel
leaveGroup ==
    /\ GroupPanelShown
    /\ ~showJoinModal
    /\ isInGroup' = FALSE
    /\ groupCode' = <<>>
    /\ userName' = <<>>
    /\ groupMembers' = <<>>
    /\ stopLocationTrackingBody
    /\ alerts' = <<"Left Group">>
    /\ console' = <<>>
    /\ UNCHANGED <<mounted, initPc, permissionStatus, location, mapRegion,
                   mapType, showJoinModal>>

\* "Join Hiking Group": onPress={() => setShowJoinModal(true)}
openJoinModal ==
    /\ JoinButtonShown
    /\ ~showJoinModal
    /\ showJoinModal' = TRUE
    /\ Quiet
    /\ UNCHANGED <<mounted, initPc, permissionStatus, location, mapRegion,
                   mapType, groupCode, userName, isInGroup, groupMembers,
                   isTracking, locationSubscription, watches>>

\* "Cancel" in the modal: onPress={() => setShowJoinModal(false)}
cancelJoinModal ==
    /\ ModalActive
    /\ showJoinModal' = FALSE
    /\ Quiet
    /\ UNCHANGED <<mounted, initPc, permissionStatus, location, mapRegion,
                   mapType, groupCode, userName, isInGroup, groupMembers,
                   isTracking, locationSubscription, watches>>

\* TextInput onChangeText={setGroupCode}
setGroupCode(s) ==
    /\ ModalActive
    /\ s # groupCode
    /\ groupCode' = s
    /\ Quiet
    /\ UNCHANGED <<mounted, initPc, permissionStatus, location, mapRegion,
                   mapType, userName, isInGroup, groupMembers, showJoinModal,
                   isTracking, locationSubscription, watches>>

\* TextInput onChangeText={setUserName}
setUserName(s) ==
    /\ ModalActive
    /\ s # userName
    /\ userName' = s
    /\ Quiet
    /\ UNCHANGED <<mounted, initPc, permissionStatus, location, mapRegion,
                   mapType, groupCode, isInGroup, groupMembers, showJoinModal,
                   isTracking, locationSubscription, watches>>

(* ------------------------------- the map ------------------------------- *)
toggleMapType ==
    /\ MainViewActive
    /\ mapType' = nextMapType(mapType)
    /\ Quiet
    /\ UNCHANGED <<mounted, initPc, permissionStatus, location, mapRegion,
                   groupCode, userName, isInGroup, groupMembers, showJoinModal,
                   isTracking, locationSubscription, watches>>

\* MapView onRegionChangeComplete={setMapRegion}
onRegionChangeComplete(region) ==
    /\ MainViewActive
    /\ region # mapRegion
    /\ mapRegion' = region
    /\ Quiet
    /\ UNCHANGED <<mounted, initPc, permissionStatus, location, mapType,
                   groupCode, userName, isInGroup, groupMembers, showJoinModal,
                   isTracking, locationSubscription, watches>>

(* ------------------------------- unmount ------------------------------- *)
\* cleanup returned by the useEffect
unmount ==
    /\ mounted
    /\ mounted' = FALSE
    /\ watches' = Remove(watches, locationSubscription)
    /\ Quiet
    /\ UNCHANGED <<initPc, permissionStatus, location, mapRegion, mapType,
                   groupCode, userName, isInGroup, groupMembers, showJoinModal,
                   isTracking, locationSubscription>>

(* ---------------------------- specification ---------------------------- *)
Next ==
    \/ \E status \in {"granted", "denied"} : requestPermissionsResolved(status)
    \/ requestPermissionsRejected
    \/ \E fix \in Fixes : getCurrentPositionResolved(fix)
    \/ getCurrentPositionRejected
    \/ startLocationTracking
    \/ \E w \in WatchIds : watchPositionResolved(w)
    \/ \E w \in WatchIds : watchPositionRejected(w)
    \/ \E w \in WatchIds, fix \in Fixes : locationCallback(w, fix)
    \/ stopLocationTracking
    \/ joinGroupInvalid
    \/ joinGroupValid
    \/ leaveGroup
    \/ openJoinModal
    \/ cancelJoinModal
    \/ \E s \in Strings : setGroupCode(s)
    \/ \E s \in Strings : setUserName(s)
    \/ toggleMapType
    \/ \E region \in DraggedRegions : onRegionChangeComplete(region)
    \/ unmount

Spec == Init /\ [][Next]_vars

TypeOK ==
    /\ mounted \in BOOLEAN
    /\ initPc \in {"permission", "position", "done"}
    /\ permissionStatus \in {"undetermined", "granted", "denied"}
    /\ location \in Fixes \cup {NULL}
    /\ mapType \in {types[i] : i \in 1..Len(types)}
    /\ groupCode \in Strings /\ userName \in Strings
    /\ isInGroup \in BOOLEAN /\ showJoinModal \in BOOLEAN /\ isTracking \in BOOLEAN
    /\ locationSubscription \in WatchIds \cup {NoSub}
    /\ Len(groupMembers) \in {0, 2}

(* ------------------------------- claims -------------------------------- *)
ValidationAlert == "Error: Please enter both group code and your name."

\* C1: every leaveGroup step clears the group code, the name and the peer
\* list, sets isInGroup and isTracking false, and leaves no location
\* subscription live.
C1_LeaveGroupStopsSubscription ==
    [][leaveGroup =>
        /\ isInGroup' = FALSE
        /\ groupCode' = <<>>
        /\ userName' = <<>>
        /\ groupMembers' = <<>>
        /\ isTracking' = FALSE
        /\ Live' = {}]_vars

\* C2 as stated: every joinGroup step taken with a non-empty group code and a
\* non-empty name (whitespace-only strings included) sets isInGroup, puts two
\* entries in groupMembers and begins a watch when none is active.
C2_JoinGroupNonEmpty ==
    [][(joinGroup /\ groupCode # <<>> /\ userName # <<>>) =>
        /\ isInGroup' = TRUE
        /\ Len(groupMembers') = 2
        /\ (~isTracking => Cardinality(Pending') = Cardinality(Pending) + 1)]_vars

\* C2 amended: every joinGroup step taken with a group code and a name that
\* are non-empty after trimming whitespace sets isInGroup, closes the modal,
\* puts exactly the two fabricated entries demo1 and demo2 in groupMembers,
\* and begins one watch if isTracking is false (none if it is true); a
\* joinGroup step with a code or name that trims to empty leaves isInGroup,
\* groupMembers and watches unchanged.
C2_JoinGroupTrimmed ==
    [][joinGroup =>
        IF trim(groupCode) # <<>> /\ trim(userName) # <<>>
        THEN /\ isInGroup' = TRUE
             /\ showJoinModal' = FALSE
             /\ Len(groupMembers') = 2
             /\ groupMembers'[1].id = "demo1" /\ groupMembers'[2].id = "demo2"
             /\ IF isTracking
                THEN watches' = watches
                ELSE /\ Cardinality(Pending') = Cardinality(Pending) + 1
                     /\ Live' = Live
        ELSE UNCHANGED <<isInGroup, groupMembers, watches>>]_vars

\* C2 witness: the state right after a valid joinGroup that began a watch
C2_Witness ==
    /\ alerts = <<"Success">>
    /\ isInGroup
    /\ Len(groupMembers) = 2
    /\ Pending # {}
    /\ ~isTracking

\* C3: at most one location subscription is live in every reachable state.
C3_AtMostOneLiveSubscription == Cardinality(Live) <= 1

\* C4: once the screen has unmounted, no location subscription is live.
C4_ReleasedAfterUnmount == ~mounted => Live = {}

\* C5: a joinGroup step taken with an empty group code or an empty name
\* changes no state of the screen and shows exactly one alert, the validation
\* alert.
C5_EmptyJoinChangesNothing ==
    [][(joinGroup /\ (groupCode = <<>> \/ userName = <<>>)) =>
        /\ UNCHANGED <<isInGroup, groupMembers, showJoinModal, isTracking,
                       locationSubscription, watches, groupCode, userName,
                       location, mapRegion, mapType, mounted>>
        /\ alerts' = <<ValidationAlert>>]_vars

\* C5 witness: the state right after joinGroup was pressed with an empty field
C5_Witness ==
    /\ alerts = <<ValidationAlert>>
    /\ (groupCode = <<>> \/ userName = <<>>)
    /\ showJoinModal
    /\ ~isInGroup

\* C6: the step in which the permission request resolves with a status other
\* than granted shows exactly one alert and ends initializeLocation; from then
\* on location and mapRegion stay null (the loading view), no position fetch
\* is pending, no watch exists and no later step shows an alert.
C6_DeniedStaysLoading ==
    [][/\ (permissionStatus # "denied" /\ permissionStatus' = "denied")
            => alerts' = <<"Permission Denied">>
       /\ permissionStatus' = "denied"
            => /\ location' = NULL
               /\ mapRegion' = NULL
               /\ initPc' = "done"
               /\ Free' = WatchIds
       /\ permissionStatus = "denied"
            => /\ permissionStatus' = "denied"
               /\ alerts' = <<>>]_vars

\* C6 witness: a state later than the denial (its alert is no longer the last task's)
C6_Witness ==
    /\ permissionStatus = "denied"
    /\ alerts = <<>>
    /\ Loading
    /\ ~mounted

\* C7: the group status panel is rendered only if isInGroup is true, and
\* groupMembers (hence the member markers) is non-empty only if isInGroup is
\* true.
C7_GroupUiOnlyInGroup ==
    /\ GroupPanelShown => isInGroup
    /\ groupMembers # <<>> => isInGroup
    /\ MemberMarkers # <<>> => isInGroup

\* C7 witness: the panel and the member markers are on screen
C7_Witness ==
    /\ GroupPanelShown
    /\ Len(MemberMarkers) = 2
    /\ ~showJoinModal

\* C8: every toggleMapType step moves standard -> satellite -> hybrid ->
\* standard, two further toggles after it lead back to the mode it started
\* from, and a step that changes mapType is a toggleMapType step.
C8_ToggleCycle ==
    [][/\ toggleMapType =>
            /\ mapType = "standard" => mapType' = "satellite"
            /\ mapType = "satellite" => mapType' = "hybrid"
            /\ mapType = "hybrid" => mapType' = "standard"
            /\ nextMapType(nextMapType(mapType')) = mapType
       /\ mapType' # mapType => toggleMapType]_vars

\* C8 witness: two toggles have been made from the initial mode
C8_Witness == mapType = "hybrid" /\ mounted

\* C9: a location callback that fires while the screen shows the user in a
\* group (isInGroup, non-empty groupCode and userName) sets location,
\* re-centres mapRegion and calls updateLocationInGroup with the new location.
C9_CallbackUpdatesGroup ==
    [][\A w \in WatchIds, fix \in Fixes :
        (locationCallback(w, fix) /\ mounted /\ isInGroup
            /\ Truthy(groupCode) /\ Truthy(userName)) =>
        /\ location' = fix
        /\ mapRegion' = RegionAt(fix, ZoomDelta)
        /\ console' = <<updateLocationInGroup(fix)>>]_vars

\* C10: while the screen is mounted, isTracking is true if and only if
\* locationSubscription.current holds a subscription that is still live.
C10_FlagMatchesHandle ==
    mounted =>
        (isTracking <=> (/\ locationSubscription # NoSub
                         /\ watches[locationSubscription].status = "live"))

\* C10 witness: tracking is on while a second startLocationTracking is pending
C10_Witness ==
    /\ mounted
    /\ isTracking
    /\ locationSubscription # NoSub
    /\ Pending # {}

====
